---------------------------- MODULE Spec2Model ----------------------------
(***************************************************************************)
(* A model of swat/utils/testing.py: the environment-driven lookups        *)
(* (get_casout_lib, get_cas_data_lib, get_host_port_proto), the .casrc     *)
(* reader (_read_casrc), the fixture loader (load_data) and the table      *)
(* comparison helper (TestCase.assertTablesEqual).                         *)
(*                                                                         *)
(* Python strings are sequences of one-character strings, so that          *)
(* substring tests ('.mpp' in server_type), int(...) and str(...) are      *)
(* computed and not assumed.  Python values are tagged records.            *)
(***************************************************************************)
EXTENDS Integers, Sequences, FiniteSets, TLC

VARIABLES
    environ,      \* os.environ: variable name -> string, or Unset
    serverType,   \* the server_type argument of the library lookups / load_data
    libPc,        \* position of the library-lookup caller
    outLib,       \* value returned by get_casout_lib
    dataLib       \* value returned by get_cas_data_lib

\* get_host_port_proto / _read_casrc
VARIABLES
    fs,           \* the file system: state of the three .casrc candidates and of $HOME
    pc,           \* position inside get_host_port_proto / _read_casrc
    cashost,      \* local cashost
    casport,      \* local casport
    casprotocol,  \* local casprotocol
    casrc,        \* the candidate chosen at lines 170-175 ("none" before)
    lg,           \* the Lua globals object built by _read_casrc
    result,       \* the returned tuple (NoResult before the return)
    exc,          \* the exception that left the function ("none" if none)
    loopIters,    \* history: times the body of the discovery loop started
    consulted,    \* history: candidates whose existence was queried
    contents,     \* history: the globals defined by the parsed file
    tiers,        \* history: the parser tiers that ran, in order
    t1, t2        \* history: how tier 1 and tier 2 ended

\* load_data
VARIABLES
    ldPc,         \* position inside load_data
    path,         \* the path argument, then the remapped path
    casout,       \* the casout argument, then the completed dictionary
    res,          \* local res
    ldExc,        \* the exception that left load_data ("none" if none)
    returned,     \* the returned value (NoResult before the return)
    calls         \* history: the remote operations issued, with their outcomes

\* TestCase.assertTablesEqual
VARIABLES
    tePc,         \* position inside assertTablesEqual
    a, b,         \* the two tables
    sortby,       \* the sortby argument
    a0, b0        \* history: the tables as passed

libVars == <<environ, serverType, libPc, outLib, dataLib>>
loadVars == <<ldPc, path, casout, res, ldExc, returned, calls>>
tabVars == <<tePc, a, b, sortby, a0, b0>>
connVars == <<fs, pc, cashost, casport, casprotocol, casrc, lg, result, exc,
              loopIters, consulted, contents, tiers, t1, t2>>
vars == <<libVars, connVars, loadVars, tabVars>>

-----------------------------------------------------------------------------
(* Bounds of the model *)

MaxTypeLen == 4      \* longest server-type string of the library lookups
MaxPortLen == 2      \* longest CASPORT string
MaxRows == 2         \* most rows of a compared table

-----------------------------------------------------------------------------
(* Python values *)

PyNone == [t |-> "none"]
StrVal(s) == [t |-> "str", s |-> s]
IntVal(n) == [t |-> "int", n |-> n]

\* A variable that os.environ does not hold.
Unset == [t |-> "unset"]

\* All sequences over alphabet A of length at most n.
SeqsUpTo(A, n) == UNION {[1..k -> A] : k \in 0..n}

\* s[i..j] of a sequence (empty when j < i).
Slice(s, i, j) == [k \in 1..(j - i + 1) |-> s[i + k - 1]]

\* Python's `sub in s` for strings.
Contains(s, sub) ==
    \E i \in 1..(Len(s) - Len(sub) + 1) : Slice(s, i, i + Len(sub) - 1) = sub

\* An exception raised by an expression.
Raise(e) == [t |-> "raise", exc |-> e]
IsRaise(v) == v.t = "raise"

\* bool(v) for the values the functions test.
Truthy(v) ==
    CASE v.t = "none" -> FALSE
      [] v.t = "str"  -> Len(v.s) > 0
      [] v.t = "int"  -> v.n # 0
      [] OTHER        -> TRUE

Digits == <<"0", "1", "2", "3", "4", "5", "6", "7", "8", "9">>
IsDigit(c) == \E d \in 1..10 : Digits[d] = c
DigitValue(c) == (CHOOSE d \in 1..10 : Digits[d] = c) - 1

\* The value of a non-empty string of decimal digits.
RECURSIVE DigitsValue(_)
DigitsValue(s) ==
    IF Len(s) = 0 THEN 0
    ELSE 10 * DigitsValue(SubSeq(s, 1, Len(s) - 1)) + DigitValue(s[Len(s)])

\* The strings int() accepts: an optional sign, then one or more digits.
IsNumeric(s) ==
    LET body == IF Len(s) > 0 /\ s[1] \in {"-", "+"} THEN Tail(s) ELSE s
    IN  Len(body) > 0 /\ \A i \in 1..Len(body) : IsDigit(body[i])

ParseInt(s) ==
    IF s[1] = "-" THEN 0 - DigitsValue(Tail(s))
    ELSE IF s[1] = "+" THEN DigitsValue(Tail(s))
    ELSE DigitsValue(s)

\* int() left out: the value is passed on as it is.
int_unconverted(v) == v

\* Python's int(v).
int(v) ==
    CASE v.t = "int" -> v
      [] v.t = "str" -> IF IsNumeric(v.s) THEN IntVal(ParseInt(v.s))
                        ELSE Raise("ValueError")
      [] OTHER       -> Raise("TypeError")

\* The decimal digits of a natural number.
RECURSIVE NatDigits(_)
NatDigits(n) ==
    IF n < 10 THEN <<Digits[n + 1]>>
    ELSE Append(NatDigits(n \div 10), Digits[(n % 10) + 1])

\* Python's str(v).
str(v) ==
    CASE v.t = "str"  -> v
      [] v.t = "int"  -> StrVal(IF v.n < 0 THEN <<"-">> \o NatDigits(0 - v.n)
                                ELSE NatDigits(v.n))
      [] v.t = "none" -> StrVal(<<"N", "o", "n", "e">>)

\* os.environ.get(name, default)
EnvironGet(env, name, default) ==
    IF env[name] = Unset THEN default ELSE env[name]

-----------------------------------------------------------------------------
(* get_casout_lib / get_cas_data_lib *)

DotMpp == <<".", "m", "p", "p">>
CASUSER == <<"C", "A", "S", "U", "S", "E", "R">>
CASTestTmp == <<"C", "A", "S", "T", "e", "s", "t", "T", "m", "p">>
HPS == <<"H", "P", "S">>

get_casout_lib(env, server_type) ==
    LET out_lib == EnvironGet(env, "CASOUTLIB", StrVal(CASUSER))
    IN  IF Contains(server_type, DotMpp)
        THEN EnvironGet(env, "CASMPPOUTLIB", out_lib)
        ELSE out_lib

\* The test written as 'mpp' in server_type.
get_cas_data_lib_mpp(env, server_type) ==
    LET data_lib == EnvironGet(env, "CASDATALIB", StrVal(CASTestTmp))
    IN  IF Contains(server_type, <<"m", "p", "p">>)
        THEN EnvironGet(env, "CASMPPDATALIB", StrVal(HPS))
        ELSE data_lib

get_cas_data_lib(env, server_type) ==
    LET data_lib == EnvironGet(env, "CASDATALIB", StrVal(CASTestTmp))
    IN  IF Contains(server_type, DotMpp)
        THEN EnvironGet(env, "CASMPPDATALIB", StrVal(HPS))
        ELSE data_lib

LibEnvNames == {"CASOUTLIB", "CASMPPOUTLIB", "CASDATALIB", "CASMPPDATALIB"}
LibValues == {Unset, StrVal(<<"A">>), StrVal(<<"B">>)}
TypeChars == {".", "m", "p"}

CallGetCasoutLib ==
    /\ libPc = "start"
    /\ outLib' = get_casout_lib(environ, serverType)
    /\ libPc' = "outlib"
    /\ UNCHANGED <<environ, serverType, dataLib, connVars, loadVars, tabVars>>

CallGetCasDataLib ==
    /\ libPc = "outlib"
    /\ dataLib' = get_cas_data_lib(environ, serverType)
    /\ libPc' = "done"
    /\ UNCHANGED <<environ, serverType, outLib, connVars, loadVars, tabVars>>

-----------------------------------------------------------------------------
(* The file system seen by get_host_port_proto *)

\* The three candidates: rcname in the current directory (cfgfile), in the
\* home directory (homepath) and on u: (upath).
\* os.path.isfile / os.path.exists of a candidate.
isfile(f, p) == f[p] = "file"
exists(f, p) == f[p] # "absent"

\* os.path.samefile of two directories: os.stat of a missing one raises.
\* Directories: "cwd" (dirname of cfgfile) and "home" (dirname of homepath);
\* f.home says whether $HOME is missing, is the current directory, or another.
\* The answer is "True", "False" or the name of the exception.
samefile(f, d1, d2) ==
    IF "home" \in {d1, d2} /\ f.home = "missing" THEN "OSError"
    ELSE IF d1 = d2 \/ f.home = "cwd" THEN "True"
    ELSE "False"

\* The file systems: a candidate is absent, a regular file or a directory.
\* A missing $HOME holds no .casrc; when $HOME is the current directory the
\* two candidates are one file.
FileSystems ==
    {f \in [cfgfile : {"absent", "file", "dir"},
             homepath : {"absent", "file", "dir"},
             upath : {"absent", "file", "dir"},
             home : {"missing", "cwd", "other"}] :
        /\ f.home = "missing" => f.homepath = "absent"
        /\ f.home = "cwd" => f.homepath = f.cfgfile}

-----------------------------------------------------------------------------
(* get_host_port_proto *)

NoResult == [t |-> "noresult"]
Tuple(h, p, pr) == [t |-> "tuple", host |-> h, port |-> p, proto |-> pr]

\* os.environ.get(name): None when the variable is not set.
EnvGet(name) == EnvironGet(environ, name, PyNone)

\* The test written as `if cashost and casport > 0`.
EnvSuppliesBothPositive(h, p) == Truthy(h) /\ p.t = "int" /\ p.n > 0

\* Line 153: `if cashost and casport`.
EnvSuppliesBoth(h, p) == Truthy(h) /\ Truthy(p)

\* Lines 146-151: read the three variables, convert the port.
ReadEnviron ==
    /\ pc = "start"
    /\ cashost' = EnvGet("CASHOST")
    /\ casprotocol' = EnvGet("CASPROTOCOL")
    /\ LET p == EnvGet("CASPORT")
           n == IF p # PyNone THEN int(p) ELSE p
       IN  IF IsRaise(n)
           THEN /\ exc' = n.exc
                /\ pc' = "raised"
                /\ casport' = p
           ELSE /\ casport' = n
                /\ pc' = "envcheck"
                /\ exc' = exc
    /\ UNCHANGED <<fs, casrc, lg, result, loopIters, consulted, contents,
                   tiers, t1, t2, environ, libVars, loadVars, tabVars>>

\* Lines 153-161: return the environment's values, or go and look for .casrc.
CheckEnviron ==
    /\ pc = "envcheck"
    /\ IF EnvSuppliesBoth(cashost, casport)
       THEN /\ result' = Tuple(cashost, casport, casprotocol)
            /\ pc' = "done"
       ELSE /\ pc' = "while"
            /\ result' = result
    /\ UNCHANGED <<fs, cashost, casport, casprotocol, casrc, lg, exc, loopIters,
                   consulted, contents, tiers, t1, t2, environ, libVars, loadVars, tabVars>>

\* Line 163: `while not os.path.isfile(cfgfile)`.
WhileTest ==
    /\ pc = "while"
    /\ consulted' = consulted \cup {"cfgfile"}
    /\ pc' = IF isfile(fs, "cfgfile") THEN "select" ELSE "body"
    /\ UNCHANGED <<fs, cashost, casport, casprotocol, casrc, lg, result, exc,
                   loopIters, contents, tiers, t1, t2, environ, libVars, loadVars, tabVars>>

\* Lines 164-168: the loop body.  newcfgfile is computed by the expression
\* that computed cfgfile, so both name the candidate in the current directory.
WhileBody ==
    /\ pc = "body"
    /\ loopIters' = loopIters + 1
    /\ LET first == samefile(fs, "home", "cwd")
           second == samefile(fs, "cwd", "cwd")
       IN  IF first \notin {"True", "False"}
           THEN /\ pc' = "raised"
                /\ exc' = first
           ELSE /\ exc' = exc
                /\ pc' = IF first = "True" \/ second = "True"
                         THEN "select" ELSE "while"
    /\ UNCHANGED <<fs, cashost, casport, casprotocol, casrc, lg, result,
                   consulted, contents, tiers, t1, t2, environ, libVars, loadVars, tabVars>>

\* Lines 170-177: the candidate, or the environment's values when none exists.
SelectCandidate(f) ==
    IF isfile(f, "cfgfile") THEN "cfgfile"
    ELSE IF exists(f, "homepath") THEN "homepath"
    ELSE IF exists(f, "upath") THEN "upath"
    ELSE "none"

\* The candidates lines 170-174 query before they settle on one.
Queried(f) ==
    IF isfile(f, "cfgfile") THEN {"cfgfile"}
    ELSE IF exists(f, "homepath") THEN {"cfgfile", "homepath"}
    ELSE {"cfgfile", "homepath", "upath"}

Select ==
    /\ pc = "select"
    /\ consulted' = consulted \cup Queried(fs)
    /\ casrc' = SelectCandidate(fs)
    /\ IF casrc' = "none"
       THEN /\ result' = Tuple(cashost, casport, casprotocol)
            /\ pc' = "done"
       ELSE /\ pc' = "read"
            /\ result' = result
    /\ UNCHANGED <<fs, cashost, casport, casprotocol, lg, exc, loopIters,
                   contents, tiers, t1, t2, environ, libVars, loadVars, tabVars>>

-----------------------------------------------------------------------------
(* _read_casrc *)

\* A .casrc file is a Lua script; what matters of it is the value each of the
\* three globals has once it ran: nil, a number or a string.
Nil == [t |-> "nil"]
Missing == [t |-> "missing"]
RcNames == {"cashost", "casport", "casprotocol"}
FileContents ==
    [cashost : {Nil, StrVal(<<"f">>)},
     casport : {Nil, IntVal(7), IntVal(0), StrVal(<<"7">>), StrVal(<<"a">>)},
     casprotocol : {Nil, StrVal(<<"p">>)}]

\* The names the imports of lines 26-28 bind in the module.
ModuleImports == {"os", "re", "unittest"}

\* Line 209: `except ImportError`.
CaughtByImportHandler(e) == e = "ImportError"

\* The handler written as `except (OSError, IOError)`.
CaughtOnlyOSError(e) == e \in {"OSError", "IOError"}

\* Line 235: `except (OSError, IOError, subprocess.CalledProcessError)`.
CaughtBySubprocessHandler(e) == e \in {"OSError", "IOError", "CalledProcessError"}

\* Lines 204-207: lua.globals(), a table whose undefined names read as None.
LupaGlobals(c) ==
    [kind |-> "lupa",
     attrs |-> [n \in RcNames |-> IF c[n] = Nil THEN Missing ELSE c[n]]]

\* Lines 214-223, 233-234: the driver prints `name tostring(value)` for every
\* global whose name matches 'cas'; the result is the set of printed names.
LuaOutput(c) == {n \in RcNames : c[n] # Nil}

\* Lines 241-242: every printed value becomes a string attribute.
SubprocessGlobals(c) ==
    [kind |-> "object",
     attrs |-> [n \in RcNames |-> IF n \in LuaOutput(c) THEN str(c[n]) ELSE Missing]]

\* Lines 245-247: every scraped `name = literal` becomes eval(literal).
ScrapedGlobals(c) ==
    [kind |-> "object",
     attrs |-> [n \in RcNames |-> IF c[n] = Nil THEN Missing ELSE c[n]]]

\* Attribute access lg.name.
getattr(g, n) ==
    IF g.attrs[n] # Missing THEN g.attrs[n]
    ELSE IF g.kind = "lupa" THEN PyNone
    ELSE Raise("AttributeError")

\* Lines 252-253 and 258-259: `sys.sterr.write(...)`, then sys.exit(1).
\* The module binds no `sys`, and sys has no attribute `sterr`.
ReportAndExit ==
    IF "sys" \notin ModuleImports THEN Raise("NameError")
    ELSE Raise("AttributeError")

\* Lines 249-267: the three fields, or the exception that leaves the function.
ReadFields(g) ==
    LET h == getattr(g, "cashost")
        hs == IF IsRaise(h) THEN h ELSE str(h)
        p == getattr(g, "casport")
        pn == IF IsRaise(p) THEN p ELSE int(p)
        pr == getattr(g, "casprotocol")
        prs == IF IsRaise(pr) THEN PyNone
               ELSE IF Truthy(pr) THEN str(pr)
               ELSE PyNone
    IN  IF IsRaise(hs) THEN ReportAndExit
        ELSE IF IsRaise(pn) THEN ReportAndExit
        ELSE Tuple(hs, pn, prs)

\* Lines 196-201: a path that is no regular file yields three Nones.
ReadCasrcEnter ==
    /\ pc = "read"
    /\ consulted' = consulted \cup {casrc}
    /\ IF ~isfile(fs, casrc)
       THEN /\ result' = Tuple(PyNone, PyNone, PyNone)
            /\ pc' = "done"
            /\ contents' = contents
       ELSE /\ pc' = "tier1"
            /\ result' = result
            /\ contents' \in FileContents
    /\ UNCHANGED <<fs, cashost, casport, casprotocol, casrc, lg, exc, loopIters,
                   tiers, t1, t2, environ, libVars, loadVars, tabVars>>

\* Lines 203-209: the embedded interpreter.
Tier1 ==
    /\ pc = "tier1"
    /\ tiers' = Append(tiers, 1)
    /\ \E o \in {"ok", "ImportError", "LuaError"} :
          /\ t1' = o
          /\ IF o = "ok"
             THEN /\ lg' = LupaGlobals(contents)
                  /\ pc' = "fields"
                  /\ exc' = exc
             ELSE IF CaughtByImportHandler(o)
             THEN /\ pc' = "tier2"
                  /\ UNCHANGED <<lg, exc>>
             ELSE /\ pc' = "raised"
                  /\ exc' = o
                  /\ lg' = lg
    /\ UNCHANGED <<fs, cashost, casport, casprotocol, casrc, result, loopIters,
                   consulted, contents, t2, environ, libVars, loadVars, tabVars>>

\* Line 240: `if config`.  config stays None when check_output raised.
ConfigTruthy(o, c) == o = "ran" /\ LuaOutput(c) # {}

\* Lines 210-242: the lua subprocess.
Tier2 ==
    /\ pc = "tier2"
    /\ tiers' = Append(tiers, 2)
    /\ \E o \in {"ran", "OSError", "IOError", "CalledProcessError"} :
          IF o # "ran" /\ ~CaughtBySubprocessHandler(o)
          THEN /\ pc' = "raised"
               /\ exc' = o
               /\ t2' = o
               /\ lg' = lg
          ELSE IF ConfigTruthy(o, contents)
          THEN /\ lg' = SubprocessGlobals(contents)
               /\ t2' = "output"
               /\ pc' = "fields"
               /\ exc' = exc
          ELSE /\ lg' = [kind |-> "object", attrs |-> [n \in RcNames |-> Missing]]
               /\ t2' = IF o = "ran" THEN "empty" ELSE o
               /\ pc' = "tier3"
               /\ exc' = exc
    /\ UNCHANGED <<fs, cashost, casport, casprotocol, casrc, result, loopIters,
                   consulted, contents, t1, environ, libVars, loadVars, tabVars>>

\* Lines 243-247: the manual scrape.
Tier3 ==
    /\ pc = "tier3"
    /\ tiers' = Append(tiers, 3)
    /\ lg' = ScrapedGlobals(contents)
    /\ pc' = "fields"
    /\ UNCHANGED <<fs, cashost, casport, casprotocol, casrc, result, exc,
                   loopIters, consulted, contents, t1, t2, environ, libVars, loadVars, tabVars>>

\* Lines 249-267.
Fields ==
    /\ pc = "fields"
    /\ LET r == ReadFields(lg)
       IN  IF IsRaise(r)
           THEN /\ pc' = "raised"
                /\ exc' = r.exc
                /\ result' = result
           ELSE /\ pc' = "done"
                /\ result' = r
                /\ exc' = exc
    /\ UNCHANGED <<fs, cashost, casport, casprotocol, casrc, lg, loopIters,
                   consulted, contents, tiers, t1, t2, environ, libVars, loadVars, tabVars>>

-----------------------------------------------------------------------------
(* load_data *)

\* Replace every occurrence of character x in s by y (str.replace and, for a
\* one-character pattern, re.sub).
ReplaceChar(s, x, y) == [i \in 1..Len(s) |-> IF s[i] = x THEN y ELSE s[i]]

\* The last position of character x in s, 0 when there is none.
LastIndex(s, x) ==
    IF \E i \in 1..Len(s) : s[i] = x
    THEN CHOOSE i \in 1..Len(s) : s[i] = x /\ \A j \in (i + 1)..Len(s) : s[j] # x
    ELSE 0

\* os.path.splitext(p)[0] on the client (posix: the separator is "/"): the
\* extension starts at the last dot of the last component, unless that
\* component has nothing but dots before it.
SplitextRoot(p) ==
    LET sepIdx == LastIndex(p, "/")
        dotIdx == LastIndex(p, ".")
    IN  IF dotIdx > sepIdx + 1
           /\ \E k \in (sepIdx + 1)..(dotIdx - 1) : p[k] # "."
        THEN SubSeq(p, 1, dotIdx - 1)
        ELSE p

\* re.compile of a one-character pattern: a lone backslash is a bad escape.
PatternCompiles(pattern) == pattern # "\\"

\* re.sub(sep, '.', s) for a one-character pattern sep.
re_sub(sep, repl, s) ==
    IF PatternCompiles(sep) THEN StrVal(ReplaceChar(s, sep, repl))
    ELSE Raise("re.error")

Win == <<"w", "i", "n">>
casuser == <<"c", "a", "s", "u", "s", "e", "r">>

\* Lines 297-300: the separator and the remapped path.
Sep(server_type) == IF Contains(server_type, Win) THEN "\\" ELSE "/"
RemapPath(server_type, p) ==
    IF Contains(server_type, Win) THEN ReplaceChar(p, "/", "\\") ELSE p

\* A casout dictionary: each key holds a value or is Missing.
Dict(c, l, n) == [t |-> "dict", caslib |-> c, casLib |-> l, name |-> n]

\* Lines 302-309: the completed casout, or the exception of re.sub.
CompleteCasout(co, out_lib, server_type, p) ==
    LET d1 == IF co = PyNone THEN Dict(StrVal(casuser), Missing, Missing) ELSE co
        d2 == IF d1.caslib = Missing /\ d1.casLib = Missing
              THEN [d1 EXCEPT !.caslib = out_lib] ELSE d1
        nm == re_sub(Sep(server_type), ".", SplitextRoot(p))
    IN  IF d2.name # Missing THEN d2
        ELSE IF IsRaise(nm) THEN nm
        ELSE [d2 EXCEPT !.name = nm]

\* What a remote operation may answer: an exception of the connection, or a
\* result, which for loadtable may hold a tableName.
NoKey == [t |-> "nokey"]
LoadtableResults ==
    {[t |-> "casresults", of |-> "loadtable", tableName |-> n] :
        n \in {NoKey, StrVal(<<>>), StrVal(<<"T">>)}}
UploadResults == {[t |-> "casresults", of |-> "upload", tableName |-> StrVal(<<"U">>)]}
RemoteError == Raise("SWATError")

\* Line 315: `'tableName' not in res or not res['tableName']`.
NoTableLoaded(r) == r.tableName = NoKey \/ ~Truthy(r.tableName)

\* Lines 290-309.
LoadDataPrepare ==
    /\ ldPc = "start"
    /\ LET out_lib == get_casout_lib(environ, serverType)
           p == RemapPath(serverType, path)
           co == CompleteCasout(casout, out_lib, serverType, p)
       IN  /\ path' = p
           /\ IF IsRaise(co)
              THEN /\ ldPc' = "raised"
                   /\ ldExc' = co.exc
                   /\ casout' = casout
              ELSE /\ ldPc' = "loadtable"
                   /\ casout' = co
                   /\ ldExc' = ldExc
    /\ UNCHANGED <<res, returned, calls, libVars, connVars, tabVars>>

\* Line 312: conn.loadtable(caslib=data_lib, path=path, casout=casout).
LoadTable ==
    /\ ldPc = "loadtable"
    /\ \E o \in LoadtableResults \cup {RemoteError} :
          /\ calls' = Append(calls, [op |-> "loadtable",
                                     caslib |-> get_cas_data_lib(environ, serverType),
                                     path |-> path, casout |-> casout, outcome |-> o])
          /\ IF IsRaise(o)
             THEN /\ ldPc' = "raised"
                  /\ ldExc' = o.exc
                  /\ res' = res
             ELSE /\ ldPc' = "check"
                  /\ res' = o
                  /\ ldExc' = ldExc
    /\ UNCHANGED <<path, casout, returned, libVars, connVars, tabVars>>

\* Lines 315-317: upload the local copy when no table was loaded.
Upload ==
    /\ ldPc = "check"
    /\ IF NoTableLoaded(res)
       THEN \E o \in UploadResults \cup {RemoteError} :
              /\ calls' = Append(calls, [op |-> "upload", caslib |-> PyNone,
                                         path |-> path, casout |-> casout,
                                         outcome |-> o])
              /\ IF IsRaise(o)
                 THEN /\ ldPc' = "raised"
                      /\ ldExc' = o.exc
                      /\ res' = res
                 ELSE /\ ldPc' = "return"
                      /\ res' = o
                      /\ ldExc' = ldExc
       ELSE /\ ldPc' = "return"
            /\ UNCHANGED <<calls, res, ldExc>>
    /\ UNCHANGED <<path, casout, returned, libVars, connVars, tabVars>>

\* Line 319.
LoadDataReturn ==
    /\ ldPc = "return"
    /\ returned' = res
    /\ ldPc' = "done"
    /\ UNCHANGED <<path, casout, res, ldExc, calls, libVars, connVars, tabVars>>

-----------------------------------------------------------------------------
(* TestCase.assertTablesEqual *)

\* A table (DataFrame) is a list of column names and a list of rows, each row
\* holding one cell per column; a cell is an integer or NaN.
NaN == [t |-> "nan"]
Cells == {IntVal(1), IntVal(2), NaN}
ColumnLists == {<<"x">>, <<"y">>, <<"x", "y">>}
Tables ==
    UNION {[columns : {cols}, rows : SeqsUpTo([1..Len(cols) -> Cells], MaxRows)] :
              cols \in ColumnLists}

\* The default of the fillna parameter.
DefaultFillna == -999999

Min(x, y) == IF x <= y THEN x ELSE y

\* DataFrame.fillna(value=v)
fillna(tbl, v) ==
    [tbl EXCEPT !.rows = [i \in 1..Len(tbl.rows) |->
                            [k \in 1..Len(tbl.rows[i]) |->
                                IF tbl.rows[i][k] = NaN THEN v ELSE tbl.rows[i][k]]]]

\* The position of column c of the table, 0 when it has none (KeyError).
ColumnIndex(tbl, c) ==
    IF \E k \in 1..Len(tbl.columns) : tbl.columns[k] = c
    THEN CHOOSE k \in 1..Len(tbl.columns) : tbl.columns[k] = c
    ELSE 0

\* The order of sort_values: ascending, NaN last.
KeyLeq(x, y) == y = NaN \/ (x # NaN /\ x.n <= y.n)

\* DataFrame.sort_values(c): the orders of the rows that are ascending in
\* column c (the default sort is not stable, so rows with equal keys may
\* come out in either order).
sort_values(tbl, c) ==
    LET n == Len(tbl.rows)
        k == ColumnIndex(tbl, c)
        perms == {f \in [1..n -> 1..n] : \A i, j \in 1..n : i # j => f[i] # f[j]}
        sorted == {f \in perms : \A i, j \in 1..n :
                      i < j => KeyLeq(tbl.rows[f[i]][k], tbl.rows[f[j]][k])}
    IN  {[tbl EXCEPT !.rows = [i \in 1..n |-> tbl.rows[f[i]]]] : f \in sorted}

\* zip(x, y): the pairs up to the end of the shorter list.
zip(x, y) == [i \in 1..Min(Len(x), Len(y)) |-> <<x[i], y[i]>>]

\* Lines 81-83: every zipped pair of rows is equal.
RowsAgree(x, y) ==
    LET z == zip(x.rows, y.rows)
    IN  \A i \in 1..Len(z) : z[i][1] = z[i][2]

\* Lines 75-77: sort both tables when a key is given.
TableSort ==
    /\ tePc = "start"
    /\ IF sortby # "None"
       THEN IF ColumnIndex(a, sortby) = 0 \/ ColumnIndex(b, sortby) = 0
            THEN /\ tePc' = "KeyError"
                 /\ UNCHANGED <<a, b>>
            ELSE /\ a' \in sort_values(a, sortby)
                 /\ b' \in sort_values(b, sortby)
                 /\ tePc' = "columns"
       ELSE /\ tePc' = "columns"
            /\ UNCHANGED <<a, b>>
    /\ UNCHANGED <<sortby, a0, b0, libVars, connVars, loadVars>>

\* Line 78: the column lists are compared.
TableColumns ==
    /\ tePc = "columns"
    /\ tePc' = IF a.columns = b.columns THEN "rows" ELSE "AssertionError"
    /\ UNCHANGED <<a, b, sortby, a0, b0, libVars, connVars, loadVars>>

\* Lines 79-83: NaN is replaced, then the rows are compared pairwise.
TableRows ==
    /\ tePc = "rows"
    /\ a' = fillna(a, IntVal(DefaultFillna))
    /\ b' = fillna(b, IntVal(DefaultFillna))
    /\ tePc' = IF RowsAgree(a', b') THEN "passed" ELSE "AssertionError"
    /\ UNCHANGED <<sortby, a0, b0, libVars, connVars, loadVars>>

-----------------------------------------------------------------------------
(* Specifications *)

PortChars == {"0", "5", "-"}
ConnEnvironments ==
    [CASHOST : {Unset, StrVal(<<>>), StrVal(<<"e">>)},
     CASPORT : {Unset} \cup {StrVal(x) : x \in SeqsUpTo(PortChars, MaxPortLen)},
     CASPROTOCOL : {Unset, StrVal(<<"q">>)}]

LibIdle ==
    /\ serverType = <<>>
    /\ libPc = "idle"
    /\ outLib = Unset
    /\ dataLib = Unset

ConnIdle ==
    /\ fs = [cfgfile |-> "absent", homepath |-> "absent", upath |-> "absent",
             home |-> "other"]
    /\ pc = "idle"
    /\ cashost = PyNone
    /\ casport = PyNone
    /\ casprotocol = PyNone
    /\ casrc = "none"
    /\ lg = [kind |-> "object", attrs |-> [n \in RcNames |-> Missing]]
    /\ result = NoResult
    /\ exc = "none"
    /\ loopIters = 0
    /\ consulted = {}
    /\ contents = [n \in RcNames |-> Nil]
    /\ tiers = <<>>
    /\ t1 = "notrun"
    /\ t2 = "notrun"

LoadIdle ==
    /\ ldPc = "idle"
    /\ path = <<>>
    /\ casout = PyNone
    /\ res = NoResult
    /\ ldExc = "none"
    /\ returned = NoResult
    /\ calls = <<>>

EmptyTable == [columns |-> <<"x">>, rows |-> <<>>]

TabIdle ==
    /\ tePc = "idle"
    /\ a = EmptyTable
    /\ b = EmptyTable
    /\ a0 = EmptyTable
    /\ b0 = EmptyTable
    /\ sortby = "None"

LibInit ==
    /\ environ \in [LibEnvNames -> LibValues]
    /\ serverType \in SeqsUpTo(TypeChars, MaxTypeLen)
    /\ libPc = "start"
    /\ outLib = Unset
    /\ dataLib = Unset
    /\ ConnIdle /\ LoadIdle /\ TabIdle

LibNext == CallGetCasoutLib \/ CallGetCasDataLib

SpecLib == LibInit /\ [][LibNext]_vars

ConnInit ==
    /\ environ \in ConnEnvironments
    /\ fs \in FileSystems
    /\ pc = "start"
    /\ cashost = PyNone
    /\ casport = PyNone
    /\ casprotocol = PyNone
    /\ casrc = "none"
    /\ lg = [kind |-> "object", attrs |-> [n \in RcNames |-> Missing]]
    /\ result = NoResult
    /\ exc = "none"
    /\ loopIters = 0
    /\ consulted = {}
    /\ contents = [n \in RcNames |-> Nil]
    /\ tiers = <<>>
    /\ t1 = "notrun"
    /\ t2 = "notrun"
    /\ LibIdle /\ LoadIdle /\ TabIdle

ConnNext ==
    \/ ReadEnviron
    \/ CheckEnviron
    \/ WhileTest
    \/ WhileBody
    \/ Select
    \/ ReadCasrcEnter
    \/ Tier1
    \/ Tier2
    \/ Tier3
    \/ Fields

SpecConn == ConnInit /\ [][ConnNext]_vars

\* Server types in the form platform.mpp|smp of get_cas_host_type.
LoadServerTypes ==
    {<<"l", "i", "n", "u", "x", ".", "s", "m", "p">>,
     <<"l", "i", "n", "u", "x", ".", "m", "p", "p">>,
     <<"w", "i", "n", "d", "o", "w", "s", ".", "s", "m", "p">>,
     <<"w", "i", "n", "d", "o", "w", "s", ".", "m", "p", "p">>}
LoadPaths == {<<"d", "/", "c", ".", "v">>, <<"c">>}
CasoutArgs ==
    {PyNone} \cup
    {Dict(c, l, n) : c \in {Missing, StrVal(<<"A">>)}, l \in {Missing, StrVal(<<"B">>)},
                     n \in {Missing, StrVal(<<"t">>)}}

LoadInit ==
    /\ environ \in [LibEnvNames -> {Unset, StrVal(<<"L">>)}]
    /\ serverType \in LoadServerTypes
    /\ libPc = "idle"
    /\ outLib = Unset
    /\ dataLib = Unset
    /\ ldPc = "start"
    /\ path \in LoadPaths
    /\ casout \in CasoutArgs
    /\ res = NoResult
    /\ ldExc = "none"
    /\ returned = NoResult
    /\ calls = <<>>
    /\ ConnIdle /\ TabIdle

LoadNext == LoadDataPrepare \/ LoadTable \/ Upload \/ LoadDataReturn

SpecLoad == LoadInit /\ [][LoadNext]_vars

TabInit ==
    /\ environ = [n \in LibEnvNames |-> Unset]
    /\ a \in Tables
    /\ b \in Tables
    /\ a0 = a
    /\ b0 = b
    /\ sortby \in {"None", "x", "y"}
    /\ tePc = "start"
    /\ LibIdle /\ ConnIdle /\ LoadIdle

TabNext == TableSort \/ TableColumns \/ TableRows

SpecTab == TabInit /\ [][TabNext]_vars

-----------------------------------------------------------------------------
(* Claims about get_casout_lib / get_cas_data_lib *)

Mpp == <<"m", "p", "p">>
OutBothSet == environ["CASOUTLIB"] # Unset /\ environ["CASMPPOUTLIB"] # Unset
DataBothSet == environ["CASDATALIB"] # Unset /\ environ["CASMPPDATALIB"] # Unset

\* C3 as stated: with the base and the MPP variable both set, both lookups
\* return the MPP variable's value for every server type that contains "mpp",
\* and the base variable's value for every other server type.
C3_AsStated ==
    libPc = "done" =>
        /\ OutBothSet =>
              outLib = IF Contains(serverType, Mpp)
                       THEN environ["CASMPPOUTLIB"] ELSE environ["CASOUTLIB"]
        /\ DataBothSet =>
              dataLib = IF Contains(serverType, Mpp)
                        THEN environ["CASMPPDATALIB"] ELSE environ["CASDATALIB"]

\* C3 as amended: the discriminating substring is ".mpp".  With both variables
\* set, both lookups return the MPP variable's value for every server type
\* that contains ".mpp", and the base variable's value for every other one.
C3_DotMppSelectsOverride ==
    libPc = "done" =>
        /\ OutBothSet =>
              outLib = IF Contains(serverType, DotMpp)
                       THEN environ["CASMPPOUTLIB"] ELSE environ["CASOUTLIB"]
        /\ DataBothSet =>
              dataLib = IF Contains(serverType, DotMpp)
                        THEN environ["CASMPPDATALIB"] ELSE environ["CASDATALIB"]

\* Both variables of both lookups set to different values, an MPP server type.
C3_Witness ==
    /\ libPc = "done"
    /\ serverType = DotMpp
    /\ OutBothSet /\ DataBothSet
    /\ environ["CASOUTLIB"] # environ["CASMPPOUTLIB"]
    /\ environ["CASDATALIB"] # environ["CASMPPDATALIB"]
    /\ outLib = environ["CASMPPOUTLIB"]
    /\ dataLib = environ["CASMPPDATALIB"]

-----------------------------------------------------------------------------
(* Claims about get_host_port_proto / _read_casrc *)

HostSet == environ["CASHOST"] # Unset
PortSet == environ["CASPORT"] # Unset

\* The function returned the environment's three values and looked at no file.
ReturnedEnvironUnconsulted ==
    /\ pc \in {"start", "envcheck", "done"}
    /\ consulted = {}
    /\ pc = "done" =>
          result = Tuple(environ["CASHOST"],
                         IntVal(ParseInt(environ["CASPORT"].s)),
                         EnvGet("CASPROTOCOL"))

\* C1 as stated: whenever CASHOST and CASPORT are both set, the function
\* returns (host, int(port), protocol or None) and consults no file.
C1_AsStated == (HostSet /\ PortSet) => ReturnedEnvironUnconsulted

\* C1 as amended: whenever CASHOST is set to a non-empty string and CASPORT
\* to a string int() accepts whose value is not 0, the function returns
\* (host, int(port), protocol or None) and consults no file.
C1_EnvironmentShortCircuit ==
    (/\ HostSet /\ Len(environ["CASHOST"].s) > 0
     /\ PortSet /\ IsNumeric(environ["CASPORT"].s)
     /\ ParseInt(environ["CASPORT"].s) # 0) => ReturnedEnvironUnconsulted

\* Both set, a negative port, a .casrc in the current and the home directory.
C1_Witness ==
    /\ pc = "done"
    /\ environ["CASHOST"] = StrVal(<<"e">>)
    /\ environ["CASPORT"] = StrVal(<<"-", "5">>)
    /\ fs.cfgfile = "file" /\ fs.homepath = "file"
    /\ result = Tuple(StrVal(<<"e">>), IntVal(0 - 5), EnvGet("CASPROTOCOL"))
    /\ consulted = {}

\* C2: when a config file (one that defines host and port) was parsed, the
\* host or port the environment supplied is the one returned.
C2_EnvironmentAuthoritative ==
    (/\ pc = "done" /\ tiers # <<>>
     /\ contents.cashost # Nil /\ contents.casport # Nil) =>
        /\ Truthy(cashost) => result.host = cashost
        /\ Truthy(casport) => result.port = casport

\* C4: a parsed file that defines no host or no port never yields a tuple.
C4_MissingFieldIsFatal ==
    (tiers # <<>> /\ (contents.cashost = Nil \/ contents.casport = Nil))
        => pc # "done"

\* The environment holds a CASPORT that int() rejects.
PortNotNumeric == PortSet /\ ~IsNumeric(environ["CASPORT"].s)

\* C5 as stated: a returned port is None or a positive integer, and a
\* non-numeric CASPORT ends in an error, not in a result.
C5_AsStated ==
    /\ pc = "done" =>
          \/ result.port = PyNone
          \/ result.port.t = "int" /\ result.port.n > 0
    /\ PortNotNumeric => (pc \in {"start", "raised"} /\ result = NoResult)

\* C5 as amended: a returned port is None or an integer (of any sign), and a
\* non-numeric CASPORT ends in ValueError, not in a result.
C5_PortIsIntegerOrNone ==
    /\ pc = "done" => result.port.t \in {"none", "int"}
    /\ PortNotNumeric =>
          /\ pc \in {"start", "raised"}
          /\ result = NoResult
          /\ pc = "raised" => exc = "ValueError"

\* A port the subprocess tier printed as "7" is returned as the integer 7.
C5_Witness ==
    /\ pc = "done"
    /\ t2 = "output"
    /\ contents.casport = StrVal(<<"7">>)
    /\ result.port = IntVal(7)

SubprocessFailures == {"OSError", "IOError", "CalledProcessError"}

\* C7: the tiers run in the order 1, 2, 3; tier 2 only after the import of
\* lupa failed; tier 3 only after the subprocess failed or printed nothing;
\* no tier after one that produced entries; a missing interpreter is never
\* the caller's error but always the next tier.
C7_TiersInOrder ==
    /\ tiers \in {<<>>, <<1>>, <<1, 2>>, <<1, 2, 3>>}
    /\ Len(tiers) >= 2 => t1 = "ImportError"
    /\ Len(tiers) >= 3 => t2 \in SubprocessFailures \cup {"empty"}
    /\ t1 = "ok" => tiers = <<1>>
    /\ t2 = "output" => tiers = <<1, 2>>
    /\ t1 = "ImportError" => (pc = "tier2" \/ Len(tiers) >= 2)
    /\ t2 \in SubprocessFailures => (pc = "tier3" \/ Len(tiers) = 3)
    /\ (pc = "raised" /\ tiers # <<>>) =>
          exc \notin SubprocessFailures \cup {"ImportError"}

\* No lupa, no lua executable: the scrape produced the result.
C7_Witness ==
    /\ pc = "done"
    /\ tiers = <<1, 2, 3>>
    /\ t1 = "ImportError"
    /\ t2 = "CalledProcessError"

\* The environment did not supply both, and the function ended.
SearchEnded ==
    /\ pc \in {"done", "raised"}
    /\ exc # "ValueError"
    /\ ~EnvSuppliesBoth(cashost, casport)

FirstExisting ==
    IF fs.cfgfile # "absent" THEN "cfgfile"
    ELSE IF fs.homepath # "absent" THEN "homepath"
    ELSE IF fs.upath # "absent" THEN "upath"
    ELSE "none"

\* C8: without host and port from the environment, the first existing
\* candidate in the order current directory, home, u: is the one parsed, and
\* without any candidate the environment's values are returned unparsed.
C8_FirstExistingCandidate ==
    SearchEnded =>
        IF FirstExisting # "none"
        THEN casrc = FirstExisting /\ tiers # <<>>
        ELSE /\ pc = "done"
             /\ result = Tuple(cashost, casport, casprotocol)
             /\ tiers = <<>>

\* C9: once the body of the discovery loop has started it has run once only,
\* and control is at the candidate selection or past it.
C9_LoopReachesSelection ==
    loopIters >= 1 =>
        /\ loopIters = 1
        /\ pc \notin {"while"}
        /\ ~(pc = "raised" /\ exc = "OSError")

-----------------------------------------------------------------------------
(* Claims about load_data *)

CallsOf(op) == {i \in 1..Len(calls) : calls[i].op = op}

\* C10: load_data issues loadtable first and once; it issues upload, once and
\* after loadtable, exactly when the loadtable result holds no non-empty
\* table name; it returns the upload result if it uploaded and the loadtable
\* result otherwise; a remote error leaves uncaught and ends the calls.
C10_LoadTableThenUpload ==
    ldPc \in {"done", "raised"} =>
        /\ CallsOf("loadtable") = {1}
        /\ CallsOf("upload") \subseteq {2}
        /\ Len(calls) <= 2
        /\ (CallsOf("upload") = {2}) <=>
              (~IsRaise(calls[1].outcome) /\ NoTableLoaded(calls[1].outcome))
        /\ ldPc = "done" => returned = calls[Len(calls)].outcome
        /\ ldPc = "raised" =>
              (IsRaise(calls[Len(calls)].outcome)
               /\ ldExc = calls[Len(calls)].outcome.exc)

-----------------------------------------------------------------------------
(* Claims about assertTablesEqual *)

\* C6: assertTablesEqual returns normally only when the tables, sorted and
\* with NaN replaced, have the same columns, the same number of rows and the
\* same cells.
C6_NoMismatchSwallowed ==
    tePc = "passed" =>
        /\ a.columns = b.columns
        /\ Len(a0.rows) = Len(b0.rows)
        /\ a.rows = b.rows

-----------------------------------------------------------------------------
(* What does hold where a claim fails (each an invariant of its specification) *)

\* The body of the discovery loop never starts twice: the loop ends, by a
\* break or by the OSError of os.path.samefile.  (SpecConn)
LoopBodyRunsAtMostOnce == loopIters <= 1

\* With an existing home directory and no candidate that is a directory, the
\* candidates are tried in the order of C8.  (SpecConn)
CandidateOrderOnPlainFiles ==
    (/\ SearchEnded /\ fs.home # "missing"
     /\ \A c \in {"cfgfile", "homepath", "upath"} : fs[c] # "dir")
        => C8_FirstExistingCandidate

\* Outside the lupa tier a file without host or port yields no tuple.  (SpecConn)
MissingFieldIsFatalOutsideLupa ==
    (/\ tiers # <<>> /\ t1 # "ok"
     /\ (contents.cashost = Nil \/ contents.casport = Nil)) => pc # "done"

\* Unless re.sub raised, load_data behaves as C10 says.  (SpecLoad)
LoadTableThenUploadUnlessReError ==
    ldExc # "re.error" => C10_LoadTableThenUpload

\* Tables with the same number of rows pass only when they are equal once
\* sorted and filled.  (SpecTab)
EqualLengthTablesCompared ==
    (tePc = "passed" /\ Len(a0.rows) = Len(b0.rows))
        => (a.columns = b.columns /\ a.rows = b.rows)

=============================================================================
